---- MODULE Spec2Model ----
(***************************************************************************)
(* A model of the NHL shot pipeline: NHLShotScraper (src/src/shot_scraper.py) *)
(* and XGProcessor (src/src/feature_processor.py).                            *)
(*                                                                            *)
(* Python dictionaries are TLA+ records; a key is present exactly when it is  *)
(* in the record's DOMAIN.  Python's None is the string None.  Strings that   *)
(* the code indexes or slices (timeInPeriod, situationCode) are sequences of  *)
(* one-character strings.                                                     *)
(***************************************************************************)
EXTENDS Integers, Sequences, FiniteSets, TLC

VARIABLES
    \* ---- NHLShotScraper.scrape_fenwick_shots --------------------------------
    game_ids,             \* the argument: the list of game ids
    gi,                   \* position of the outer for loop in game_ids
    pbp,                  \* game_data["plays"] of the game being processed
    home_id, away_id,     \* game_data["homeTeam"]["id"], game_data["awayTeam"]["id"]
    idx,                  \* position of the inner for loop in pbp (0-based, as enumerate)
    rows,                 \* the local list rows
    player_dict,          \* self.player_dict
    player_stats_cache,   \* self.player_stats_cache
    pc,                   \* "fetch" | "plays" | "returned" | "raised"
    result,               \* the returned table (a sequence of rows)
    lookups,              \* observation: per get_player_stats call, whether the provider was called
    fetched,              \* observation: <<game id, "ok" | "fail">> per play-by-play call
    handled,              \* observation: per event, what the loop body did with it
    \* ---- is_rebound / is_rush ------------------------------------------------
    c_play, c_prev,       \* the arguments play, prev_play
    c_clock, c_prev_clock,\* the period clock (seconds) the two timestamps were made from
    c_called,             \* which of the two functions has been called
    c_rebound, c_rush,    \* their return values
    \* ---- get_danger_zone ----------------------------------------------------
    d_x, d_y, d_zone,
    \* ---- XGProcessor.processFenwick -------------------------------------------
    df, df_out, df_done

scrape_vars  == <<game_ids, gi, pbp, home_id, away_id, idx, rows, player_dict,
                  player_stats_cache, pc, result, lookups, fetched, handled>>
classify_vars == <<c_play, c_prev, c_clock, c_prev_clock, c_called, c_rebound, c_rush>>
danger_vars  == <<d_x, d_y, d_zone>>
process_vars == <<df, df_out, df_done>>
vars == <<scrape_vars, classify_vars, danger_vars, process_vars>>

----------------------------------------------------------------------------
(* Python values                                                            *)

None == "None"

\* {} : the default of prev_play.get("details", {})
EmptyDict == [k \in {} |-> None]

\* d.get(k)
Get(d, k) == IF k \in DOMAIN d THEN d[k] ELSE None

\* `not prev_play`: None and the empty dict are both falsy
NoPlay == EmptyDict

Falsy(p) == DOMAIN p = {}

DigitChars == <<"0", "1", "2", "3", "4", "5", "6", "7", "8", "9">>

IsDigit(ch) == \E i \in 1..10 : DigitChars[i] = ch

DigitValue(ch) == (CHOOSE i \in 1..10 : DigitChars[i] = ch) - 1

\* s[a:b] on a string held as a sequence of characters (0-based, end exclusive,
\* clipped to the length as Python slices are)
Slice(s, a, b) ==
    LET hi == IF b < Len(s) THEN b ELSE Len(s)
    IN  IF a >= hi THEN <<>> ELSE SubSeq(s, a + 1, hi)

\* int(s) raises ValueError unless s is a non-empty run of digits
IntRaises(s) == Len(s) = 0 \/ \E i \in 1..Len(s) : ~IsDigit(s[i])

RECURSIVE IntOf(_)
IntOf(s) ==
    IF Len(s) = 0 THEN 0
    ELSE 10 * IntOf(SubSeq(s, 1, Len(s) - 1)) + DigitValue(s[Len(s)])

----------------------------------------------------------------------------
(* NHLShotScraper.second_diff                                               *)

second_diff_raises(time1, time2) ==
    \/ IntRaises(Slice(time1, 0, 2)) \/ IntRaises(Slice(time1, 3, 5))
    \/ IntRaises(Slice(time2, 0, 2)) \/ IntRaises(Slice(time2, 3, 5))

second_diff(time1, time2) ==
    LET m1 == IntOf(Slice(time1, 0, 2))
        s1 == IntOf(Slice(time1, 3, 5))
        m2 == IntOf(Slice(time2, 0, 2))
        s2 == IntOf(Slice(time2, 3, 5))
        d  == (m2 * 60 + s2) - (m1 * 60 + s1)
    IN  IF d < 0 THEN -d ELSE d

----------------------------------------------------------------------------
(* NHLShotScraper.is_rebound                                                *)

ReboundBlockedWindow == 2
ReboundShotWindow == 3

is_rebound_raises(play, prev_play) ==
    /\ ~Falsy(prev_play)
    /\ \/ "timeInPeriod" \notin DOMAIN play
       \/ "timeInPeriod" \notin DOMAIN prev_play
       \/ second_diff_raises(play.timeInPeriod, prev_play.timeInPeriod)
       \/ "typeDescKey" \notin DOMAIN prev_play

is_rebound_late(play, prev_play) ==
    IF Falsy(prev_play) THEN 0
    ELSE LET time_diff == second_diff(play.timeInPeriod, prev_play.timeInPeriod)
         IN  IF prev_play.typeDescKey = "blocked-shot" /\ time_diff <= ReboundBlockedWindow THEN 1
             ELSE IF prev_play.typeDescKey \in {"missed-shot", "shot-on-goal"}
                     /\ time_diff <= ReboundShotWindow + 1 THEN 1
             ELSE 0

is_rebound(play, prev_play) ==
    IF Falsy(prev_play) THEN 0
    ELSE LET time_diff == second_diff(play.timeInPeriod, prev_play.timeInPeriod)
         IN  IF prev_play.typeDescKey = "blocked-shot" /\ time_diff <= ReboundBlockedWindow THEN 1
             ELSE IF prev_play.typeDescKey \in {"missed-shot", "shot-on-goal"}
                     /\ time_diff <= ReboundShotWindow THEN 1
             ELSE 0

----------------------------------------------------------------------------
(* NHLShotScraper.is_rush                                                   *)

stoppages == {"stoppage", "faceoff", "goal", "penalty", "period-start", "period-end", "game-end"}

RushWindow == 4

is_rush_raises(play, prev_play) ==
    /\ ~Falsy(prev_play)
    /\ \/ "typeDescKey" \notin DOMAIN prev_play
       \/ /\ prev_play.typeDescKey \notin stoppages
          /\ \/ "timeInPeriod" \notin DOMAIN play
             \/ "timeInPeriod" \notin DOMAIN prev_play
             \/ second_diff_raises(play.timeInPeriod, prev_play.timeInPeriod)
             \/ /\ second_diff(play.timeInPeriod, prev_play.timeInPeriod) <= RushWindow
                /\ "details" \notin DOMAIN play

is_rush_same_owner(play, prev_play) ==
    IF Falsy(prev_play) THEN 0
    ELSE IF prev_play.typeDescKey \in stoppages THEN 0
    ELSE IF second_diff(play.timeInPeriod, prev_play.timeInPeriod) > RushWindow THEN 0
    ELSE LET shooting_team_id == Get(play.details, "eventOwnerTeamId")
             prev_details == IF "details" \in DOMAIN prev_play THEN prev_play.details ELSE EmptyDict
             prev_zone    == Get(prev_details, "zoneCode")
             prev_owner   == Get(prev_details, "eventOwnerTeamId")
         IN  IF prev_zone = None THEN 0
             ELSE IF prev_zone = "N" THEN 1
             ELSE IF prev_zone = "D" /\ prev_owner = shooting_team_id THEN 1
             ELSE IF prev_zone = "O" /\ prev_owner = shooting_team_id THEN 1
             ELSE 0

is_rush(play, prev_play) ==
    IF Falsy(prev_play) THEN 0
    ELSE IF prev_play.typeDescKey \in stoppages THEN 0
    ELSE IF second_diff(play.timeInPeriod, prev_play.timeInPeriod) > RushWindow THEN 0
    ELSE LET shooting_team_id == Get(play.details, "eventOwnerTeamId")
             prev_details == IF "details" \in DOMAIN prev_play THEN prev_play.details ELSE EmptyDict
             prev_zone    == Get(prev_details, "zoneCode")
             prev_owner   == Get(prev_details, "eventOwnerTeamId")
         IN  IF prev_zone = None THEN 0
             ELSE IF prev_zone = "N" THEN 1
             ELSE IF prev_zone = "D" /\ prev_owner = shooting_team_id THEN 1
             ELSE IF prev_zone = "O" /\ prev_owner # shooting_team_id THEN 1
             ELSE 0

----------------------------------------------------------------------------
(* NHLShotScraper.get_danger_zone                                           *)

Abs(n) == IF n < 0 THEN -n ELSE n

SlotNearX == 69
GoalLineX == 89
SlotFarX == 44
HighHalfWidth == 6
SlotHalfWidth == 22

\* y_abs <= -0.8*x_abs + 77.2, times ten; on integer coordinates the float
\* comparison and this exact one agree
UnderBoundary(x_abs, y_abs) == 10 * y_abs <= 772 - 8 * x_abs

get_danger_zone_strict(x, y) ==
    LET x_abs == Abs(x)
        y_abs == Abs(y)
    IN  IF SlotNearX <= x_abs /\ x_abs <= GoalLineX /\ y_abs < HighHalfWidth THEN "high"
        ELSE IF SlotNearX <= x_abs /\ x_abs <= GoalLineX
                /\ HighHalfWidth < y_abs /\ y_abs <= SlotHalfWidth
             THEN (IF UnderBoundary(x_abs, y_abs) THEN "med" ELSE "low")
        ELSE IF SlotFarX <= x_abs /\ x_abs < SlotNearX /\ y_abs <= SlotHalfWidth THEN "med"
        ELSE "low"

get_danger_zone(x, y) ==
    LET x_abs == Abs(x)
        y_abs == Abs(y)
    IN  IF SlotNearX <= x_abs /\ x_abs <= GoalLineX /\ y_abs <= HighHalfWidth THEN "high"
        ELSE IF SlotNearX <= x_abs /\ x_abs <= GoalLineX
                /\ HighHalfWidth < y_abs /\ y_abs <= SlotHalfWidth
             THEN (IF UnderBoundary(x_abs, y_abs) THEN "med" ELSE "low")
        ELSE IF SlotFarX <= x_abs /\ x_abs < SlotNearX /\ y_abs <= SlotHalfWidth THEN "med"
        ELSE "low"

----------------------------------------------------------------------------
(* Arguments tried for is_rebound and is_rush                                *)

\* The period clocks (in seconds) the timestamps are formatted from
ClockBase == 597
ClockSpan == 6

Clocks == ClockBase .. (ClockBase + ClockSpan)

\* "MM:SS" as the play-by-play feed formats the period clock
MMSS(c) ==
    <<DigitChars[(c \div 600) + 1], DigitChars[((c \div 60) % 10) + 1], ":",
      DigitChars[((c % 60) \div 10) + 1], DigitChars[(c % 10) + 1]>>

Teams == {"T1", "T2"}

ZoneCodes == {"N", "D", "O"}

PrevTypes == stoppages \cup {"blocked-shot", "missed-shot", "shot-on-goal", "hit", "takeaway"}

PrevDetails ==
    {EmptyDict}
    \cup {[zoneCode |-> z] : z \in ZoneCodes}
    \cup {[eventOwnerTeamId |-> o] : o \in Teams}
    \cup {[zoneCode |-> z, eventOwnerTeamId |-> o] : z \in ZoneCodes, o \in Teams}

PrevPlays ==
    {[typeDescKey |-> ty, timeInPeriod |-> MMSS(c)] : ty \in PrevTypes, c \in Clocks}
    \cup {[typeDescKey |-> ty, timeInPeriod |-> MMSS(c), details |-> d] :
              ty \in PrevTypes, c \in Clocks, d \in PrevDetails}

InitClassify ==
    /\ \E c \in Clocks, t \in Teams :
          /\ c_clock = c
          /\ c_play = [typeDescKey |-> "shot-on-goal", timeInPeriod |-> MMSS(c),
                       details |-> [eventOwnerTeamId |-> t]]
    /\ \/ c_prev = NoPlay /\ c_prev_clock = 0
       \/ \E pc0 \in Clocks :
             /\ c_prev_clock = pc0
             /\ c_prev \in {p \in PrevPlays : p.timeInPeriod = MMSS(pc0)}
    /\ c_called = {} /\ c_rebound = 0 /\ c_rush = 0
    \* the other components are idle
    /\ game_ids = <<>> /\ gi = 0 /\ pbp = <<>> /\ home_id = None /\ away_id = None
    /\ idx = 0 /\ rows = <<>> /\ player_dict = EmptyDict /\ player_stats_cache = EmptyDict
    /\ pc = "idle" /\ result = <<>> /\ lookups = <<>> /\ fetched = <<>> /\ handled = <<>>
    /\ d_x = 0 /\ d_y = 0 /\ d_zone = "unset"
    /\ df = <<>> /\ df_out = <<>> /\ df_done = FALSE

CallIsRebound ==
    /\ "is_rebound" \notin c_called
    /\ ~is_rebound_raises(c_play, c_prev)
    /\ c_rebound' = is_rebound(c_play, c_prev)
    /\ c_called' = c_called \cup {"is_rebound"}
    /\ UNCHANGED <<c_play, c_prev, c_clock, c_prev_clock, c_rush>>

CallIsRush ==
    /\ "is_rush" \notin c_called
    /\ ~is_rush_raises(c_play, c_prev)
    /\ c_rush' = is_rush(c_play, c_prev)
    /\ c_called' = c_called \cup {"is_rush"}
    /\ UNCHANGED <<c_play, c_prev, c_clock, c_prev_clock, c_rebound>>

(* Arguments tried for get_danger_zone: the rink's coordinate range         *)
MaxX == 100
MaxY == 43

InitDanger ==
    /\ d_x \in (-MaxX) .. MaxX
    /\ d_y \in (-MaxY) .. MaxY
    /\ d_zone = "unset"
    \* the other components are idle
    /\ game_ids = <<>> /\ gi = 0 /\ pbp = <<>> /\ home_id = None /\ away_id = None
    /\ idx = 0 /\ rows = <<>> /\ player_dict = EmptyDict /\ player_stats_cache = EmptyDict
    /\ pc = "idle" /\ result = <<>> /\ lookups = <<>> /\ fetched = <<>> /\ handled = <<>>
    /\ c_play = NoPlay /\ c_prev = NoPlay /\ c_clock = 0 /\ c_prev_clock = 0
    /\ c_called = {} /\ c_rebound = 0 /\ c_rush = 0
    /\ df = <<>> /\ df_out = <<>> /\ df_done = FALSE

CallGetDangerZone ==
    /\ d_zone = "unset"
    /\ d_zone' = get_danger_zone(d_x, d_y)
    /\ UNCHANGED <<d_x, d_y>>

NextClassify ==
    \/ CallIsRebound /\ UNCHANGED <<scrape_vars, danger_vars, process_vars>>
    \/ CallIsRush /\ UNCHANGED <<scrape_vars, danger_vars, process_vars>>

SpecClassify ==
    InitClassify /\ [][NextClassify]_vars

NextDanger == CallGetDangerZone /\ UNCHANGED <<scrape_vars, classify_vars, process_vars>>

SpecDanger ==
    InitDanger /\ [][NextDanger]_vars

----------------------------------------------------------------------------
(* NHLShotScraper.get_player_stats                                          *)

\* d[k] = v
Put(d, k, v) == [x \in (DOMAIN d) \cup {k} |-> IF x = k THEN v ELSE d[x]]

\* What client.stats.player_career_stats(player_id) can do: raise, or return a
\* document; a document may lack the keys get_player_stats reads.
ResponseKinds == {"error", "incomplete", "complete"}

Career(player_id) ==
    CASE player_id = "p9" -> [savePctg |-> ".910", shootingPctg |-> ".000"]
      [] player_id = "p1" -> [shootingPctg |-> ".105"]
      [] OTHER            -> EmptyDict

PlayerInfo(player_id) ==
    [firstName     |-> [default |-> "First"],
     lastName      |-> [default |-> player_id],
     position      |-> IF player_id = "p9" THEN "G" ELSE "C",
     shootsCatches |-> IF player_id = "p2" THEN "R" ELSE "L",
     featuredStats |-> [regularSeason |-> [career |-> Career(player_id)]]]

IncompleteInfo(player_id) ==
    [firstName     |-> [default |-> "First"],
     lastName      |-> [default |-> player_id],
     position      |-> IF player_id = "p9" THEN "G" ELSE "C",
     shootsCatches |-> IF player_id = "p2" THEN "R" ELSE "L"]

player_career_stats(player_id, kind) ==
    CASE kind = "error"      -> [raises |-> TRUE]
      [] kind = "incomplete" -> [raises |-> FALSE, info |-> IncompleteInfo(player_id)]
      [] OTHER               -> [raises |-> FALSE, info |-> PlayerInfo(player_id)]

\* The KeyErrors of lines 60-73
player_info_raises(player_info) ==
    \/ {"firstName", "lastName", "position", "shootsCatches", "featuredStats"}
          \ DOMAIN player_info # {}
    \/ "default" \notin DOMAIN player_info.firstName
    \/ "default" \notin DOMAIN player_info.lastName
    \/ "regularSeason" \notin DOMAIN player_info.featuredStats
    \/ "career" \notin DOMAIN player_info.featuredStats.regularSeason

\* The value of get_player_stats(player_id) where the provider answers `kind`:
\* raised, the returned (name, stats), the two dictionaries afterwards, and
\* whether the provider was called.
get_player_stats_forgetful(player_id, pdict, pcache, kind) ==
    IF player_id \in DOMAIN pdict
    THEN [raised |-> FALSE, called |-> FALSE, name |-> pdict[player_id],
          stats |-> pcache[player_id], player_dict |-> pdict, player_stats_cache |-> pcache]
    ELSE LET resp == player_career_stats(player_id, kind)
         IN  IF resp.raises \/ player_info_raises(resp.info)
             THEN [raised |-> TRUE, called |-> TRUE, name |-> None, stats |-> <<>>,
                   player_dict |-> pdict, player_stats_cache |-> pcache]
             ELSE LET player_info == resp.info
                      name  == player_info.firstName.default \o " " \o player_info.lastName.default
                      career == player_info.featuredStats.regularSeason.career
                      stats == IF player_info.position = "G"
                               THEN <<player_info.position, player_info.shootsCatches,
                                      Get(career, "savePctg")>>
                               ELSE <<player_info.position, player_info.shootsCatches,
                                      Get(career, "shootingPctg")>>
                  IN  [raised |-> FALSE, called |-> TRUE, name |-> name, stats |-> stats,
                       player_dict |-> pdict,
                       player_stats_cache |-> Put(pcache, player_id, stats)]

get_player_stats(player_id, pdict, pcache, kind) ==
    IF player_id \in DOMAIN pdict
    THEN [raised |-> FALSE, called |-> FALSE, name |-> pdict[player_id],
          stats |-> pcache[player_id], player_dict |-> pdict, player_stats_cache |-> pcache]
    ELSE LET resp == player_career_stats(player_id, kind)
         IN  IF resp.raises \/ player_info_raises(resp.info)
             THEN [raised |-> TRUE, called |-> TRUE, name |-> None, stats |-> <<>>,
                   player_dict |-> pdict, player_stats_cache |-> pcache]
             ELSE LET player_info == resp.info
                      name  == player_info.firstName.default \o " " \o player_info.lastName.default
                      career == player_info.featuredStats.regularSeason.career
                      stats == IF player_info.position = "G"
                               THEN <<player_info.position, player_info.shootsCatches,
                                      Get(career, "savePctg")>>
                               ELSE <<player_info.position, player_info.shootsCatches,
                                      Get(career, "shootingPctg")>>
                  IN  [raised |-> FALSE, called |-> TRUE, name |-> name, stats |-> stats,
                       player_dict |-> Put(pdict, player_id, name),
                       player_stats_cache |-> Put(pcache, player_id, stats)]

\* One entry of the observation `lookups`
Lookup(player_id, r) == [player_id |-> player_id, called |-> r.called, ok |-> ~r.raised]

----------------------------------------------------------------------------
(* NHLShotScraper.scrape_fenwick_shots: the body of the loop over plays     *)

FenwickTypes == {"missed-shot", "goal", "shot-on-goal"}

\* Line 171 raises KeyError (no situationCode) or IndexError (too short); `and`
\* and `or` evaluate left to right and stop early.
situation_test_raises(play, home, away) ==
    LET missing == "situationCode" \notin DOMAIN play
        home_raises == home = 1 /\ (missing \/ Len(play.situationCode) < 1)
        home_true == home = 1 /\ ~home_raises /\ play.situationCode[1] = "0"
    IN  \/ home_raises
        \/ ~home_true /\ away = 1 /\ (missing \/ Len(play.situationCode) < 4)

\* The test of line 171, where it does not raise
shooting_team_excluded_own_skaters(play, home, away) ==
    \/ home = 1 /\ Len(play.situationCode) >= 3 /\ play.situationCode[3] = "0"
    \/ away = 1 /\ Len(play.situationCode) >= 2 /\ play.situationCode[2] = "0"

shooting_team_excluded(play, home, away) ==
    \/ home = 1 /\ play.situationCode[1] = "0"
    \/ away = 1 /\ play.situationCode[4] = "0"

\* Lines 195-196: int(play["situationCode"][2]), int(play["situationCode"][1])
skater_counts_raise(play) ==
    \/ "situationCode" \notin DOMAIN play
    \/ Len(play.situationCode) < 3
    \/ ~IsDigit(play.situationCode[3])
    \/ ~IsDigit(play.situationCode[2])

Outcome(o, nr, d, c, l) ==
    [outcome |-> o, new_rows |-> nr, player_dict |-> d, player_stats_cache |-> c, lookups |-> l]

\* One iteration of the loop of line 161 on `play`, with prev_play = pbp[idx - 1]
\* or NoPlay.  kind1 and kind2 are what the player-stats provider answers to the
\* shooter's and the goaltender's lookup, if it is called.
\*   "not-shot": line 163     "skip": a continue of lines 172, 180, 191
\*   "error":    the except clause of line 236     "row": line 209
\*   "uncaught": an exception raised outside the try statement
process_play(play, prev_play, game_id, hid, aid, pdict, pcache, kind1, kind2) ==
    IF "typeDescKey" \notin DOMAIN play THEN Outcome("uncaught", <<>>, pdict, pcache, <<>>)
    ELSE IF play.typeDescKey \notin FenwickTypes THEN Outcome("not-shot", <<>>, pdict, pcache, <<>>)
    ELSE IF "details" \notin DOMAIN play \/ "eventOwnerTeamId" \notin DOMAIN play.details
         THEN Outcome("error", <<>>, pdict, pcache, <<>>)
    ELSE
    LET details == play.details
        team_id == details.eventOwnerTeamId
        home == IF team_id = hid THEN 1 ELSE 0
        away == IF team_id = aid THEN 1 ELSE 0
        shooter_id == IF play.typeDescKey = "goal" THEN Get(details, "scoringPlayerId")
                      ELSE Get(details, "shootingPlayerId")
        s  == get_player_stats(shooter_id, pdict, pcache, kind1)
        l1 == <<Lookup(shooter_id, s)>>
        goalie_id == Get(details, "goalieInNetId")
        g  == get_player_stats(goalie_id, s.player_dict, s.player_stats_cache, kind2)
        l2 == l1 \o <<Lookup(goalie_id, g)>>
        row(goalie, goalie_stats) ==
            [game_id |-> game_id,
             team_id |-> team_id,
             home |-> home,
             home_def_side |-> play.homeTeamDefendingSide,
             last_play |-> IF Falsy(prev_play) THEN None ELSE prev_play.typeDescKey,
             rebound |-> is_rebound(play, prev_play),
             rush |-> is_rush(play, prev_play),
             home_skaters |-> DigitValue(play.situationCode[3]),
             away_skaters |-> DigitValue(play.situationCode[2]),
             x_coord |-> details.xCoord,
             y_coord |-> details.yCoord,
             shooter_id |-> shooter_id,
             shooter |-> s.name,
             position |-> s.stats[1],
             shoots |-> s.stats[2],
             career_shooting_pct |-> s.stats[3],
             goalie_id |-> goalie_id,
             goalie |-> goalie,
             goalie_catches |-> goalie_stats[2],
             career_save_pct |-> goalie_stats[3],
             shot_type |-> Get(details, "shotType"),
             zone |-> Get(details, "zoneCode"),
             shot_class |-> play.typeDescKey,
             danger_zone |-> get_danger_zone(details.xCoord, details.yCoord)]
    IN  IF "homeTeamDefendingSide" \notin DOMAIN play \/ situation_test_raises(play, home, away)
        THEN Outcome("error", <<>>, pdict, pcache, <<>>)
        ELSE IF shooting_team_excluded(play, home, away)
        THEN Outcome("skip", <<>>, pdict, pcache, <<>>)
        ELSE IF shooter_id = None
        THEN Outcome("skip", <<>>, pdict, pcache, <<>>)
        ELSE IF s.raised
        THEN Outcome("error", <<>>, s.player_dict, s.player_stats_cache, l1)
        ELSE IF is_rebound_raises(play, prev_play) \/ is_rush_raises(play, prev_play)
        THEN Outcome("error", <<>>, s.player_dict, s.player_stats_cache, l1)
        ELSE IF "xCoord" \notin DOMAIN details \/ "yCoord" \notin DOMAIN details
        THEN Outcome("skip", <<>>, s.player_dict, s.player_stats_cache, l1)
        ELSE IF skater_counts_raise(play)
        THEN Outcome("error", <<>>, s.player_dict, s.player_stats_cache, l1)
        ELSE IF goalie_id = None
        THEN Outcome("row", <<row(None, <<None, None, None>>)>>,
                     s.player_dict, s.player_stats_cache, l1)
        ELSE IF g.raised
        THEN Outcome("error", <<>>, g.player_dict, g.player_stats_cache, l2)
        ELSE Outcome("row", <<row(g.name, g.stats)>>, g.player_dict, g.player_stats_cache, l2)

----------------------------------------------------------------------------
(* What client.game_center.play_by_play can return                          *)

HomeTeam == "T1"
AwayTeam == "T2"

ShotDetails(team, shooter, x, y) ==
    [eventOwnerTeamId |-> team, shootingPlayerId |-> shooter, xCoord |-> x, yCoord |-> y,
     shotType |-> "wrist", zoneCode |-> "O"]

WithGoalie(details, goalie) ==
    [k \in (DOMAIN details) \cup {"goalieInNetId"} |->
        IF k = "goalieInNetId" THEN goalie ELSE details[k]]

Play(type, clock, code, details) ==
    [typeDescKey |-> type, timeInPeriod |-> MMSS(clock), situationCode |-> code,
     homeTeamDefendingSide |-> "left", details |-> details]

FullStrength == <<"1", "5", "5", "1">>

\* A faceoff, a home shot on goal, and an away shot two seconds later
RegularPlays ==
    <<Play("faceoff", 600, FullStrength, [eventOwnerTeamId |-> HomeTeam, zoneCode |-> "N"]),
      Play("shot-on-goal", 602, FullStrength,
           WithGoalie(ShotDetails(HomeTeam, "p1", 80, 3), "p9")),
      Play("missed-shot", 604, FullStrength, ShotDetails(AwayTeam, "p2", -60, 10))>>

\* Situation codes with a "0" in each of the four places
SituationPlays ==
    <<Play("shot-on-goal", 700, <<"0", "5", "5", "1">>,
           WithGoalie(ShotDetails(HomeTeam, "p1", 75, -4), "p9")),
      Play("shot-on-goal", 710, <<"1", "5", "0", "1">>, ShotDetails(HomeTeam, "p1", 50, 20)),
      Play("missed-shot", 720, <<"1", "0", "5", "1">>, ShotDetails(AwayTeam, "p2", -85, 30)),
      Play("shot-on-goal", 730, <<"1", "5", "5", "0">>, ShotDetails(AwayTeam, "p2", -70, 0))>>

\* Events with fields missing or too short
MalformedPlays ==
    <<[typeDescKey |-> "shot-on-goal", timeInPeriod |-> MMSS(100),
       situationCode |-> FullStrength, homeTeamDefendingSide |-> "left"],
      Play("shot-on-goal", 110, FullStrength, [eventOwnerTeamId |-> HomeTeam]),
      Play("missed-shot", 120, FullStrength,
           [eventOwnerTeamId |-> HomeTeam, shootingPlayerId |-> "p1"]),
      Play("goal", 130, <<"1", "5">>,
           [eventOwnerTeamId |-> HomeTeam, scoringPlayerId |-> "p1", xCoord |-> 88, yCoord |-> 0]),
      Play("goal", 131, FullStrength,
           WithGoalie([eventOwnerTeamId |-> AwayTeam, scoringPlayerId |-> "p2",
                       xCoord |-> -88, yCoord |-> 1], "p9"))>>

\* An event without a typeDescKey between two shots
UntypedPlays ==
    <<Play("shot-on-goal", 300, FullStrength,
           WithGoalie(ShotDetails(AwayTeam, "p2", -80, 5), "p9")),
      [timeInPeriod |-> MMSS(301), situationCode |-> FullStrength],
      Play("shot-on-goal", 305, FullStrength, ShotDetails(HomeTeam, "p1", 60, 0))>>

GameData(plays) ==
    [homeTeam |-> [id |-> HomeTeam], awayTeam |-> [id |-> AwayTeam], plays |-> plays]

Feeds == {GameData(RegularPlays), GameData(SituationPlays), GameData(MalformedPlays),
          GameData(UntypedPlays), GameData(<<>>)}

----------------------------------------------------------------------------
(* NHLShotScraper.scrape_fenwick_shots                                      *)

MaxGames == 2

\* pd.DataFrame(), returned when play_by_play raises
on_fetch_failure_partial(collected) == collected

on_fetch_failure(collected) == <<>>

InitScrape ==
    /\ \E n \in 0..MaxGames : game_ids = [i \in 1..n |-> i]
    /\ gi = 0
    /\ pbp = <<>> /\ home_id = None /\ away_id = None /\ idx = 0
    /\ rows = <<>>
    /\ player_dict = EmptyDict /\ player_stats_cache = EmptyDict
    /\ pc = "fetch"
    /\ result = <<>>
    /\ lookups = <<>> /\ fetched = <<>> /\ handled = <<>>
    \* the other components are idle
    /\ c_play = NoPlay /\ c_prev = NoPlay /\ c_clock = 0 /\ c_prev_clock = 0
    /\ c_called = {} /\ c_rebound = 0 /\ c_rush = 0
    /\ d_x = 0 /\ d_y = 0 /\ d_zone = "unset"
    /\ df = <<>> /\ df_out = <<>> /\ df_done = FALSE

\* Lines 151-155: play_by_play raises, and the function returns
FetchFails ==
    /\ pc = "fetch" /\ gi < Len(game_ids)
    /\ fetched' = Append(fetched, <<game_ids[gi + 1], "fail">>)
    /\ result' = on_fetch_failure(rows)
    /\ pc' = "returned"
    /\ UNCHANGED <<game_ids, gi, pbp, home_id, away_id, idx, rows, player_dict,
                   player_stats_cache, lookups, handled>>

\* Lines 151-159: play_by_play returns game_data
FetchGame ==
    /\ pc = "fetch" /\ gi < Len(game_ids)
    /\ \E game_data \in Feeds :
          /\ home_id' = game_data.homeTeam.id
          /\ away_id' = game_data.awayTeam.id
          /\ pbp' = game_data.plays
    /\ fetched' = Append(fetched, <<game_ids[gi + 1], "ok">>)
    /\ idx' = 0
    /\ pc' = "plays"
    /\ UNCHANGED <<game_ids, gi, rows, player_dict, player_stats_cache, result, lookups, handled>>

\* Lines 161-238: one iteration of the loop over plays
ProcessPlay ==
    /\ pc = "plays" /\ idx < Len(pbp)
    /\ \E kind1 \in ResponseKinds, kind2 \in ResponseKinds :
          LET play == pbp[idx + 1]
              prev_play == IF idx > 0 THEN pbp[idx] ELSE NoPlay
              r == process_play(play, prev_play, game_ids[gi + 1], home_id, away_id,
                                player_dict, player_stats_cache, kind1, kind2)
          IN  /\ rows' = rows \o r.new_rows
              /\ player_dict' = r.player_dict
              /\ player_stats_cache' = r.player_stats_cache
              /\ lookups' = lookups \o r.lookups
              /\ handled' = Append(handled, [game_id |-> game_ids[gi + 1], idx |-> idx,
                                             play |-> play, home_id |-> home_id,
                                             away_id |-> away_id, outcome |-> r.outcome,
                                             rows_before |-> Len(rows)])
              /\ pc' = IF r.outcome = "uncaught" THEN "raised" ELSE "plays"
              /\ idx' = IF r.outcome = "uncaught" THEN idx ELSE idx + 1
    /\ UNCHANGED <<game_ids, gi, pbp, home_id, away_id, result, fetched>>

\* The loop over plays is exhausted: the loop of line 151 moves to the next game
NextGame ==
    /\ pc = "plays" /\ idx = Len(pbp)
    /\ gi' = gi + 1
    /\ pc' = "fetch"
    /\ UNCHANGED <<game_ids, pbp, home_id, away_id, idx, rows, player_dict,
                   player_stats_cache, result, lookups, fetched, handled>>

\* Line 240: return pd.DataFrame(rows)
Return ==
    /\ pc = "fetch" /\ gi = Len(game_ids)
    /\ result' = rows
    /\ pc' = "returned"
    /\ UNCHANGED <<game_ids, gi, pbp, home_id, away_id, idx, rows, player_dict,
                   player_stats_cache, lookups, fetched, handled>>

NextScrape ==
    \/ FetchFails /\ UNCHANGED <<classify_vars, danger_vars, process_vars>>
    \/ FetchGame /\ UNCHANGED <<classify_vars, danger_vars, process_vars>>
    \/ ProcessPlay /\ UNCHANGED <<classify_vars, danger_vars, process_vars>>
    \/ NextGame /\ UNCHANGED <<classify_vars, danger_vars, process_vars>>
    \/ Return /\ UNCHANGED <<classify_vars, danger_vars, process_vars>>

Spec == InitScrape /\ [][NextScrape]_vars

----------------------------------------------------------------------------
(* XGProcessor (feature_processor.py).  A table is a sequence of rows, a row  *)
(* a record keyed by column name.  distance and shot_angle are real-valued    *)
(* columns computed from x_coord and y_coord alone; they are not represented. *)

\* self.danger_map
danger_map == [low |-> 1, med |-> 2, high |-> 3]

\* The two columns add_shot_value adds to a row
shot_value_columns_no_rush(r) ==
    LET danger_numeric == danger_map[r.danger_zone]
    IN  Put(Put(r, "danger_numeric", danger_numeric), "shot_value", danger_numeric + r.rebound)

shot_value_columns(r) ==
    LET danger_numeric == danger_map[r.danger_zone]
    IN  Put(Put(r, "danger_numeric", danger_numeric),
            "shot_value", danger_numeric + r.rebound + r.rush)

add_shot_value(table) == [i \in 1..Len(table) |-> shot_value_columns(table[i])]

\* The column add_situation adds to a row (the two helper columns are dropped again)
situation_column_home_view(r) ==
    LET shooting_team_skaters  == r.home_skaters
        defending_team_skaters == r.away_skaters
        ev == "EV"
        pp == IF shooting_team_skaters > defending_team_skaters THEN "PP" ELSE ev
        sh == IF shooting_team_skaters < defending_team_skaters THEN "SH" ELSE pp
    IN  Put(r, "situation", sh)

situation_column(r) ==
    LET shooting_team_skaters  == IF r.home = 1 THEN r.home_skaters ELSE r.away_skaters
        defending_team_skaters == IF r.home = 1 THEN r.away_skaters ELSE r.home_skaters
        ev == "EV"
        pp == IF shooting_team_skaters > defending_team_skaters THEN "PP" ELSE ev
        sh == IF shooting_team_skaters < defending_team_skaters THEN "SH" ELSE pp
    IN  Put(r, "situation", sh)

add_situation(table) == [i \in 1..Len(table) |-> situation_column(table[i])]

MinSkaters == 3

\* Lines 63-65: the three row filters
retained_home_only(r) ==
    /\ r.home_skaters >= MinSkaters
    /\ r.goalie_id # None

retained(r) ==
    /\ r.home_skaters >= MinSkaters
    /\ r.away_skaters >= MinSkaters
    /\ r.goalie_id # None

drop_cols == {"game_id", "team_id", "home_def_side", "x_coord", "y_coord", "shooter_id",
              "shooter", "goalie_id", "goalie", "goalie_catches", "shoots", "zone"}

\* Line 60: element-wise +, which leaves a missing value where either side is missing
shot_on_glove_column(r) ==
    Put(r, "shot_on_glove",
        IF r.shoots = None \/ r.goalie_catches = None THEN None
        ELSE r.shoots \o r.goalie_catches)

drop_columns(r) == [k \in (DOMAIN r) \ drop_cols |-> r[k]]

processFenwick(table) ==
    LET with_glove == [i \in 1..Len(table) |-> shot_on_glove_column(table[i])]
        filtered   == SelectSeq(with_glove, retained)
        valued     == add_shot_value(filtered)
        situated   == add_situation(valued)
    IN  [i \in 1..Len(situated) |-> drop_columns(situated[i])]

----------------------------------------------------------------------------
(* Tables tried for processFenwick: rows as scrape_fenwick_shots             *)
(* emits them                                                                *)

MaxRows == 2

\* The row at position i of an input table carries the i-th shot type, so that
\* a row of the output can be traced to its input row
ShotTypes == <<"wrist", "snap", "slap", "backhand", "tip-in", "deflected">>

ShotRow(i, hs, as, gid, home, dz, reb, rsh) ==
    [game_id |-> 1, team_id |-> IF home = 1 THEN HomeTeam ELSE AwayTeam, home |-> home,
     home_def_side |-> "left", last_play |-> "faceoff", rebound |-> reb, rush |-> rsh,
     home_skaters |-> hs, away_skaters |-> as, x_coord |-> 80, y_coord |-> 3,
     shooter_id |-> "p1", shooter |-> "First p1", position |-> "C", shoots |-> "L",
     career_shooting_pct |-> ".105", goalie_id |-> gid,
     goalie |-> IF gid = None THEN None ELSE "First p9",
     goalie_catches |-> IF gid = None THEN None ELSE "L",
     career_save_pct |-> IF gid = None THEN None ELSE ".910",
     shot_type |-> ShotTypes[i], zone |-> "O", shot_class |-> "shot-on-goal",
     danger_zone |-> dz]

GoalieIds == {None, "p9"}

\* Tables whose rows differ in what the filters read
FilterRows(i) ==
    {ShotRow(i, hs, as, gid, 1, "med", 0, 0) : hs \in {2, 3, 4}, as \in {2, 3, 4}, gid \in GoalieIds}

RECURSIVE FilterTablesOfLen(_)
FilterTablesOfLen(n) ==
    IF n = 0 THEN {<<>>}
    ELSE {Append(t, r) : t \in FilterTablesOfLen(n - 1), r \in FilterRows(n)}

FilterTables == UNION {FilterTablesOfLen(n) : n \in 0..MaxRows}

\* Tables with one row drawn from every combination of the columns the derived
\* features read, alone or after a row that is kept or dropped
FeatureRows(i) ==
    {ShotRow(i, hs, as, gid, home, dz, reb, rsh) :
        hs \in {2, 3, 4, 5}, as \in {2, 3, 4, 5}, gid \in GoalieIds, home \in {0, 1},
        dz \in {"low", "med", "high"}, reb \in {0, 1}, rsh \in {0, 1}}

FeatureTables ==
    {<<r>> : r \in FeatureRows(1)}
    \cup {<<ShotRow(1, 5, 5, "p9", 1, "low", 0, 0), r>> : r \in FeatureRows(2)}
    \cup {<<ShotRow(1, 5, 2, "p9", 1, "low", 1, 1), r>> : r \in FeatureRows(2)}

InitProcess ==
    /\ df \in FilterTables \cup FeatureTables
    /\ df_out = <<>>
    /\ df_done = FALSE
    \* the other components are idle
    /\ game_ids = <<>> /\ gi = 0 /\ pbp = <<>> /\ home_id = None /\ away_id = None
    /\ idx = 0 /\ rows = <<>> /\ player_dict = EmptyDict /\ player_stats_cache = EmptyDict
    /\ pc = "idle" /\ result = <<>> /\ lookups = <<>> /\ fetched = <<>> /\ handled = <<>>
    /\ c_play = NoPlay /\ c_prev = NoPlay /\ c_clock = 0 /\ c_prev_clock = 0
    /\ c_called = {} /\ c_rebound = 0 /\ c_rush = 0
    /\ d_x = 0 /\ d_y = 0 /\ d_zone = "unset"

CallProcessFenwick ==
    /\ ~df_done
    /\ df_out' = processFenwick(df)
    /\ df_done' = TRUE
    /\ UNCHANGED df

NextProcess == CallProcessFenwick /\ UNCHANGED <<scrape_vars, classify_vars, danger_vars>>

SpecProcess == InitProcess /\ [][NextProcess]_vars

----------------------------------------------------------------------------
(* Properties                                                               *)

SameLookupPairs ==
    {p \in (1..Len(lookups)) \X (1..Len(lookups)) :
        p[1] < p[2] /\ lookups[p[1]].player_id = lookups[p[2]].player_id}

\* C1 (as stated): over a scraping run the player-stats provider is never called
\* a second time for the same player id, failed lookups included.
C1_AtMostOneCallPerPlayer ==
    \A p \in SameLookupPairs : ~(lookups[p[1]].called /\ lookups[p[2]].called)

\* C1 (amended): once a lookup of a player id has succeeded, no later lookup of
\* that id calls the provider, and the later lookup succeeds from the cache; a
\* lookup that raised stored nothing.
C1_NoCallAfterSuccessfulLookup ==
    \A p \in SameLookupPairs :
        lookups[p[1]].ok => (~lookups[p[2]].called /\ lookups[p[2]].ok)

\* C1 witness: a player looked up twice, the first time from the provider with
\* success, the second time from the cache.
C1_Witness ==
    \E p \in SameLookupPairs :
        lookups[p[1]].called /\ lookups[p[1]].ok /\ ~lookups[p[2]].called

\* C2: if fetching the play sequence fails for a game, the run returns an empty
\* table, whatever was collected before, and no later game is fetched or processed.
C2_FetchFailureReturnsEmpty ==
    \A k \in 1..Len(fetched) :
        fetched[k][2] = "fail" =>
            /\ k = Len(fetched)
            /\ pc = "returned"
            /\ result = <<>>
            /\ \A h \in 1..Len(handled) : handled[h].game_id < fetched[k][1]

\* C2 witness: a fetch failed after records had been collected from an earlier
\* game, and the run returned the empty table.
C2_Witness ==
    /\ Len(fetched) = 2 /\ fetched[2][2] = "fail"
    /\ Len(rows) > 0
    /\ pc = "returned" /\ result = <<>>

\* C3: a failure while processing a single event is caught and only that event is
\* skipped: the run goes on and the records collected so far are kept.
C3_EventFailureIsSkipped ==
    \A h \in 1..Len(handled) :
        handled[h].outcome \in {"error", "uncaught"} =>
            /\ pc # "raised"
            /\ Len(rows) >= handled[h].rows_before

\* C3, the part that holds: a failure raised inside the try statement leaves the
\* collected records as they were and the loop moves to the next event.
C3_CaughtFailureKeepsRows ==
    [][\A h \in 1..Len(handled') :
          (h > Len(handled) /\ handled'[h].outcome = "error") =>
              (rows' = rows /\ idx' = idx + 1 /\ pc' = "plays")]_vars

EmittedEvents == {h \in 1..Len(handled) : handled[h].outcome = "row"}

\* C4 (as stated): no emitted record has home=1 with home_skaters=0, or home=0
\* with away_skaters=0.
C4_NoRecordOfZeroSkaterShooter ==
    \A i \in 1..Len(rows) :
        /\ ~(rows[i].home = 1 /\ rows[i].home_skaters = 0)
        /\ ~(rows[i].home = 0 /\ rows[i].away_skaters = 0)

\* C4 (amended): no record is emitted for a home-team event whose situation code
\* starts with "0", nor for an away-team event whose situation code ends with "0".
C4_NoRecordWhenTestedDigitIsZero ==
    \A h \in EmittedEvents :
        LET play == handled[h].play
            team_id == play.details.eventOwnerTeamId
        IN  /\ ~(team_id = handled[h].home_id /\ play.situationCode[1] = "0")
            /\ ~(team_id = handled[h].away_id /\ play.situationCode[4] = "0")

\* C4 witness: a home-team shot whose situation code starts with "0" was skipped,
\* and a home-team shot with "0" as its home skater digit was emitted.
C4_Witness ==
    /\ \E h \in 1..Len(handled) :
          /\ handled[h].outcome = "skip"
          /\ handled[h].play.details.eventOwnerTeamId = handled[h].home_id
          /\ handled[h].play.situationCode[1] = "0"
    /\ \E i \in 1..Len(rows) : rows[i].home = 1 /\ rows[i].home_skaters = 0

\* C5 (as stated): for all (x, y) with |x| >= 69 and |y| <= 6, get_danger_zone
\* returns "high".
C5_HighBeyond69 ==
    (d_zone # "unset" /\ Abs(d_x) >= 69 /\ Abs(d_y) <= 6) => d_zone = "high"

\* C5 (amended): for all (x, y) with 69 <= |x| <= 89 and |y| <= 6,
\* get_danger_zone returns "high".
C5_HighBetween69And89 ==
    (d_zone # "unset" /\ Abs(d_x) >= 69 /\ Abs(d_x) <= 89 /\ Abs(d_y) <= 6) => d_zone = "high"

\* C5 witness: the corner of the high-danger box, classified.
C5_Witness == d_x = -89 /\ d_y = 6 /\ d_zone = "high"

ClockGap == IF c_clock >= c_prev_clock THEN c_clock - c_prev_clock ELSE c_prev_clock - c_clock

\* C6: is_rebound returns 1 exactly when there is a preceding event and it is a
\* blocked-shot at most 2 seconds away on the period clock, or a missed-shot or
\* shot-on-goal at most 3 seconds away; otherwise 0.
C6_ReboundRule ==
    "is_rebound" \in c_called =>
        c_rebound = IF /\ ~Falsy(c_prev)
                       /\ \/ c_prev.typeDescKey = "blocked-shot" /\ ClockGap <= 2
                          \/ c_prev.typeDescKey \in {"missed-shot", "shot-on-goal"} /\ ClockGap <= 3
                    THEN 1 ELSE 0

\* C6 witness: a missed-shot at 10:00 and a shot at 10:02 give rebound = 1.
C6_Witness ==
    /\ "is_rebound" \in c_called
    /\ ~Falsy(c_prev)
    /\ c_prev.typeDescKey = "missed-shot"
    /\ c_prev.timeInPeriod = <<"1", "0", ":", "0", "0">>
    /\ c_play.timeInPeriod = <<"1", "0", ":", "0", "2">>
    /\ c_rebound = 1

KeptPositions ==
    {i \in 1..Len(df) :
        df[i].home_skaters >= 3 /\ df[i].away_skaters >= 3 /\ df[i].goalie_id # None}

\* C8: processFenwick only filters rows: its output rows are exactly the input
\* rows with home_skaters >= 3, away_skaters >= 3 and a goaltender id, in their
\* original order.
C8_OnlyFiltersRows ==
    df_done =>
        /\ Len(df_out) = Cardinality(KeptPositions)
        /\ Len(df_out) <= Len(df)
        /\ \A j \in 1..Len(df_out) :
              \E i \in KeptPositions :
                  /\ Cardinality({k \in KeptPositions : k < i}) = j - 1
                  /\ df_out[j].shot_type = df[i].shot_type
                  /\ df_out[j].home_skaters = df[i].home_skaters
                  /\ df_out[j].away_skaters = df[i].away_skaters
                  /\ df_out[j].home = df[i].home
                  /\ df_out[j].home_skaters >= 3 /\ df_out[j].away_skaters >= 3

\* C8 witness: of two input rows, the first was dropped and the second kept.
C8_Witness ==
    /\ df_done
    /\ Len(df) = 2 /\ Len(df_out) = 1
    /\ df[1].away_skaters = 2
    /\ df_out[1].shot_type = df[2].shot_type

\* C9: every retained row has shot_value = numeric(danger_zone) + rebound + rush
\* with numeric(low, med, high) = (1, 2, 3), a value in 1..5.
C9_ShotValue ==
    df_done =>
        \A j \in 1..Len(df_out) :
            LET numeric == CASE df_out[j].danger_zone = "low" -> 1
                             [] df_out[j].danger_zone = "med" -> 2
                             [] df_out[j].danger_zone = "high" -> 3
            IN  /\ df_out[j].shot_value = numeric + df_out[j].rebound + df_out[j].rush
                /\ df_out[j].shot_value \in 1..5

\* C9 witness: danger_zone high, rebound 0, rush 1 gives shot_value 4.
C9_Witness ==
    /\ df_done
    /\ \E j \in 1..Len(df_out) :
          /\ df_out[j].danger_zone = "high" /\ df_out[j].rebound = 0 /\ df_out[j].rush = 1
          /\ df_out[j].shot_value = 4

\* C10: every retained row has situation PP, SH or EV according to whether the
\* shooting team's skater count (home_skaters when home = 1, away_skaters
\* otherwise) is above, below or equal to the defending team's.
C10_Situation ==
    df_done =>
        \A j \in 1..Len(df_out) :
            LET shooting  == IF df_out[j].home = 1 THEN df_out[j].home_skaters
                             ELSE df_out[j].away_skaters
                defending == IF df_out[j].home = 1 THEN df_out[j].away_skaters
                             ELSE df_out[j].home_skaters
            IN  /\ df_out[j].situation \in {"EV", "PP", "SH"}
                /\ df_out[j].situation = "PP" <=> shooting > defending
                /\ df_out[j].situation = "SH" <=> shooting < defending
                /\ df_out[j].situation = "EV" <=> shooting = defending

\* C10 witness: an away-team shot with more away than home skaters is a power play.
C10_Witness ==
    /\ df_done
    /\ \E j \in 1..Len(df_out) :
          /\ df_out[j].home = 0
          /\ df_out[j].away_skaters > df_out[j].home_skaters
          /\ df_out[j].situation = "PP"

====
